---- MODULE Spec2Model ----
(***************************************************************************)
(* Model of scripts/team_manager.py: the locked load / save cycle over the *)
(* project document, the pre-write backups with bounded retention, the     *)
(* audit ledger, the access-control gate and the team operations that run  *)
(* behind them.                                                            *)
(*                                                                         *)
(* The specifications share the variables:                                 *)
(*   SpecAuth - the authorization check applied to every user and target;  *)
(*   SpecSeq  - one manager instance at a time calling whole operations;   *)
(*   SpecRate - one rate limiter checked by several users as time passes;  *)
(*   SpecProj - managers of several projects sharing one directory;        *)
(*   SpecConc - several command processes interleaving at the granularity  *)
(*              of their file-system steps (SpecCrash adds process death,  *)
(*              SpecConcFair the end of every lock-polling loop).          *)
(***************************************************************************)
EXTENDS Integers, Sequences, FiniteSets, TLC

\* ------------------------------------------------------------------ bounds
NumTeams == 2
RolesPerTeam == 2
MaxBackupsLimit == 2
MaxOps == 4
NumProcs == 2
MaxRequests == 2
MaxWindow == 2
MaxChecks == 5
MaxTicks == 3
MaxLines == 3
MaxLimit == 2

\* --------------------------------------------------------------- constants
None == "<none>"
NoTeam == 0

TeamIds == 1..NumTeams
Procs == 1..NumProcs
Persons == {"alice"}
BadPerson == "bad name"
\* role names are unique to a team in the standard template
VALID_ROLES == TeamIds \X (1..RolesPerTeam)
BadRole == <<0, 0>>
RolesOf(t) == {r \in VALID_ROLES : r[1] = t}

\* ---------------------------------------------------------- access control
ROLE_LEVELS == ("viewer" :> 1) @@ ("team-lead" :> 2) @@ ("admin" :> 3)

RoleLevel(role) ==
  IF role \in DOMAIN ROLE_LEVELS THEN ROLE_LEVELS[role] ELSE 0

NoUser == [user_id |-> None, role |-> "none", team_id |-> NoTeam]

UserContext(user_id, role, team_id) ==
  [user_id |-> user_id, role |-> role, team_id |-> team_id]

Users ==
  {NoUser} \cup {UserContext(role, role, t) :
                   role \in DOMAIN ROLE_LEVELS, t \in TeamIds \cup {NoTeam}}

AdminUser == UserContext("admin", "admin", NoTeam)
ViewerUser == UserContext("viewer", "viewer", NoTeam)

has_permission(user, required_role) ==
  RoleLevel(user.role) >= RoleLevel(required_role)

\* variant: any team-lead may modify any team
can_modify_team_any_lead(user, team_id) ==
  user.role \in {"admin", "team-lead"}

can_modify_team(user, team_id) ==
  \/ user.role = "admin"
  \/ user.role = "team-lead" /\ user.team_id = team_id

\* variant: the check lets everybody through
require_auth_allows(user, team_id) == "ok"

\* "ok" when the check passes, "PermissionDenied" when it raises
require_auth(user, team_id) ==
  IF user = NoUser THEN "PermissionDenied"
  ELSE IF ~has_permission(user, "team-lead") THEN "PermissionDenied"
  ELSE IF team_id # NoTeam /\ ~can_modify_team(user, team_id)
       THEN "PermissionDenied"
  ELSE "ok"

\* --------------------------------------------------------------- variables
VARIABLES
  now,        \* strictly increasing timestamp source (datetime.now())
  doc,        \* content of the project document file
  backups,    \* files of the backup directory
  audit,      \* lines of the audit ledger
  lock,       \* process holding the flock on the lock file, or 0
  template,   \* TeamManager.STANDARD_TEAMS, the class-level team objects
  pc,         \* per process: position in the command
  user,       \* per manager: user_context
  teams,      \* per manager: self.teams
  shared,     \* per manager: ids whose Team object is the template's object
  cmd,        \* per process: the command being run
  data,       \* per process: the dict read by load, built by save or logged
  tmp,        \* per process: its temporary file next to the document
  result,     \* per process: outcome of the last operation
  max_backups,\* retention limit of the backup manager
  hist,       \* history: what the checks need to remember
  authIn,     \* SpecAuth: the (user, target) pair under test
  authOut,    \* SpecAuth: what the check answered
  limiter,    \* the manager's self._rate_limiter
  rate_config,\* "rate_limiting" section of .teams/config.json
  faults,     \* environment: which best-effort writes currently raise
  call,       \* the traced call: its name and arguments
  structured, \* lines of the structured log files, in reading order
  answer      \* what the last log query returned

vars == <<now, doc, backups, audit, lock, template, pc, user, teams, shared,
          cmd, data, tmp, result, max_backups, hist, authIn, authOut,
          limiter, rate_config, faults, call, structured, answer>>

\* ------------------------------------------------------------ entity model
\* Role.assigned_to is None or a person; Team timestamps are 0 (None) or a
\* reading of the clock.
NewTeam(id) ==
  [id |-> id, status |-> "not_started", started_at |-> 0, completed_at |-> 0,
   roles |-> [r \in RolesOf(id) |-> None]]

PristineTeams == [t \in TeamIds |-> NewTeam(t)]
NoTeams == [t \in {} |-> NewTeam(t)]

\* ------------------------------------------------------------ the document
CURRENT_VERSION == <<1, 0, 0>>
OLD_VERSION == <<0, 9, 0>>

NoFile == [kind |-> "absent", version |-> <<>>, updated_at |-> 0,
           teams |-> <<>>, migrated_from |-> <<>>, migrated_at |-> 0]
\* the file exists and holds no bytes (open(path, 'w') before the dump)
EmptyFile == [NoFile EXCEPT !.kind = "empty"]
\* the file holds bytes that are not JSON
Garbage == [NoFile EXCEPT !.kind = "garbage"]

JsonDoc(version, updated_at, teamList) ==
  [kind |-> "json", version |-> version, updated_at |-> updated_at,
   teams |-> teamList, migrated_from |-> <<>>, migrated_at |-> 0]

exists(d) == d.kind # "absent"
parses(d) == d.kind = "json"

RECURSIVE SortedIds(_)
SortedIds(S) ==
  IF S = {} THEN <<>>
  ELSE LET m == CHOOSE x \in S : \A y \in S : x <= y
       IN <<m>> \o SortedIds(S \ {m})

\* [asdict(team) for team in self.teams.values()]: the dict keeps insertion
\* order, which is ascending id for the template and for every loaded file
asdict_teams(ts) ==
  LET ids == SortedIds(DOMAIN ts)
  IN [i \in 1..Len(ids) |-> ts[ids[i]]]

\* variant: loading forgets who holds the roles
load_teams_unassigned(teamList) ==
  [id \in {teamList[i].id : i \in DOMAIN teamList} |->
     LET rec == teamList[CHOOSE i \in DOMAIN teamList : teamList[i].id = id]
     IN [rec EXCEPT !.roles = [r \in DOMAIN rec.roles |-> None]]]

\* self.teams[team.id] = team, for each record of the file in order
load_teams(teamList) ==
  [id \in {teamList[i].id : i \in DOMAIN teamList} |->
     teamList[CHOOSE i \in DOMAIN teamList :
                /\ teamList[i].id = id
                /\ \A j \in DOMAIN teamList : teamList[j].id = id => j <= i]]

\* ------------------------------------------------------------- versions
\* MigrationManager._version_compare on parsed versions: -1, 0 or 1
RECURSIVE version_compare_from(_, _, _)
version_compare_from(v1, v2, i) ==
  LET n == IF Len(v1) > Len(v2) THEN Len(v1) ELSE Len(v2)
      n1 == IF i <= Len(v1) THEN v1[i] ELSE 0
      n2 == IF i <= Len(v2) THEN v2[i] ELSE 0
  IN IF i > n THEN 0
     ELSE IF n1 < n2 THEN -1
     ELSE IF n1 > n2 THEN 1
     ELSE version_compare_from(v1, v2, i + 1)

version_compare(v1, v2) == version_compare_from(v1, v2, 1)

needs_migration(d) == version_compare(d.version, CURRENT_VERSION) < 0

\* no migration function is registered: only the version stamp changes
migrate(d, t) ==
  IF ~needs_migration(d) THEN d
  ELSE [d EXCEPT !.version = CURRENT_VERSION,
                 !.migrated_from = d.version,
                 !.migrated_at = t]

\* -------------------------------------------------------------- backups
\* A backup file: its timestamp (name and mtime) and its gzip content.
Gzip(d) == [gz |-> d]

\* variant: decompression yields no bytes
Gunzip_empty(z) == EmptyFile

Gunzip(z) == z.gz

BackupFile(t, d) == [ts |-> t, content |-> Gzip(d)]

oldest(bs) == CHOOSE b \in bs : \A c \in bs : b.ts <= c.ts
newest(bs) == CHOOSE b \in bs : \A c \in bs : b.ts >= c.ts

\* variant: the clean-up removes the newest file first
RECURSIVE cleanup_newest_first(_, _)
cleanup_newest_first(bs, K) ==
  IF Cardinality(bs) > K
  THEN cleanup_newest_first(bs \ {newest(bs)}, K)
  ELSE bs

RECURSIVE cleanup_old_backups(_, _)
cleanup_old_backups(bs, K) ==
  IF Cardinality(bs) > K
  THEN cleanup_old_backups(bs \ {oldest(bs)}, K)
  ELSE bs

\* which writes raise: into the backup directory, into the audit ledger
NoFaults == [backup |-> FALSE, audit |-> FALSE]

\* BackupManager.create_backup on an existing file: copy, then clean up; an
\* exception of either is caught, reported as a warning and None is returned
create_backup(bs, d, t, K) ==
  IF faults.backup
  THEN bs
  ELSE cleanup_old_backups(bs \cup {BackupFile(t, d)}, K)

\* ------------------------------------------------------------ save, load
ENABLE_BACKUP == TRUE
ENABLE_AUDIT == TRUE

\* variant: save stamps the document with the previous format version
save_data_old_version(ts, t) == JsonDoc(OLD_VERSION, t, asdict_teams(ts))

\* the dict that save() dumps
save_data(ts, t) == JsonDoc(CURRENT_VERSION, t, asdict_teams(ts))

\* variant: a save whose backup cannot be written leaves the document alone
save_needs_backup(ts, d, bs, t, K) ==
  LET snap == ENABLE_BACKUP /\ exists(d)
      t1 == IF snap THEN t + 1 ELSE t
  IN [doc |-> IF snap /\ faults.backup THEN d ELSE save_data(ts, t1),
      backups |-> IF snap THEN create_backup(bs, d, t, K) ELSE bs,
      snaps |-> IF snap /\ ~faults.backup THEN <<BackupFile(t, d)>> ELSE <<>>,
      now |-> t1 + 1]

\* TeamManager.save run without interruption: the files and the clock after
save(ts, d, bs, t, K) ==
  LET snap == ENABLE_BACKUP /\ exists(d)
      t1 == IF snap THEN t + 1 ELSE t
  IN [doc |-> save_data(ts, t1),
      backups |-> IF snap THEN create_backup(bs, d, t, K) ELSE bs,
      snaps |-> IF snap /\ ~faults.backup THEN <<BackupFile(t, d)>> ELSE <<>>,
      now |-> t1 + 1]

\* Project names, as the parts that underscores separate: app, app_v2, web.
\* Every specification but SpecProj works on the one project app.
ProjectName == <<"app">>
ProjectNames == {<<"app">>, <<"app", "v2">>, <<"web">>}

\* AuditLogger.log_action: one ledger line.  part tells how much of the line
\* a write put into the file: the whole line, or its head or tail when the
\* line reaches the file in two writes.
audit_entry(t, u, action, team_id, before, after) ==
  [timestamp |-> t,
   project |-> ProjectName,
   user |-> IF u = NoUser THEN "system" ELSE u.user_id,
   role |-> IF u = NoUser THEN "system" ELSE u.role,
   action |-> action, team_id |-> team_id, before |-> before, after |-> after,
   part |-> "whole"]

\* AuditLogger.log_action: the line is appended; an exception on the way is
\* caught and reported as a warning
log_action(ledger, e) == IF faults.audit THEN ledger ELSE Append(ledger, e)

\* --------------------------------------------------------- rate limiter
RateUsers == {"default", "alice"}

DEFAULT_REQUESTS == 100
DEFAULT_WINDOW == 60
CLEANUP_INTERVAL == 300
HISTORY_LIMIT == 1000

DefaultRateConfig ==
  [enabled |-> TRUE, requests_per_window |-> DEFAULT_REQUESTS,
   window_seconds |-> DEFAULT_WINDOW]

NoBuckets == [u \in {} |-> [tokens |-> 0, last_reset |-> 0]]

\* self._rate_limiter = None
NoLimiter ==
  [created |-> FALSE, buckets |-> NoBuckets, last_cleanup |-> 0,
   enabled |-> TRUE, requests_per_window |-> DEFAULT_REQUESTS,
   window_seconds |-> DEFAULT_WINDOW]

\* RateLimiter(): empty buckets, configuration read from the config file
RateLimiter(cfg, t) ==
  [created |-> TRUE, buckets |-> NoBuckets, last_cleanup |-> t,
   enabled |-> cfg.enabled, requests_per_window |-> cfg.requests_per_window,
   window_seconds |-> cfg.window_seconds]

\* variant: a clean-up removes every bucket, whatever its age
cleanup_old_buckets_evicts_all(rl, t) ==
  IF t - rl.last_cleanup < CLEANUP_INTERVAL
  THEN rl
  ELSE [rl EXCEPT !.buckets = NoBuckets, !.last_cleanup = t]

\* RateLimiter._cleanup_old_buckets at time t
cleanup_old_buckets(rl, t) ==
  IF t - rl.last_cleanup < CLEANUP_INTERVAL
  THEN rl
  ELSE LET kept == {u \in DOMAIN rl.buckets :
                      ~(t - rl.buckets[u].last_reset > rl.window_seconds * 2)}
       IN [rl EXCEPT !.buckets = [u \in kept |-> rl.buckets[u]],
                     !.last_cleanup = t]

\* variant: the window never ends, a bucket is filled only when created
check_rate_limit_no_reset(rl, user_id, t) ==
  IF ~rl.enabled
  THEN [allowed |-> TRUE, limiter |-> rl]
  ELSE LET b0 == IF user_id \in DOMAIN rl.buckets
                 THEN rl.buckets[user_id]
                 ELSE [tokens |-> rl.requests_per_window, last_reset |-> t]
           allowed == b0.tokens > 0
           b2 == IF allowed THEN [b0 EXCEPT !.tokens = b0.tokens - 1] ELSE b0
       IN [allowed |-> allowed,
           limiter |-> [rl EXCEPT !.buckets =
                          [u \in DOMAIN rl.buckets \cup {user_id} |->
                             IF u = user_id THEN b2 ELSE rl.buckets[u]]]]

\* RateLimiter.check_rate_limit at time t: the answer and the limiter after
check_rate_limit(rl, user_id, t) ==
  IF ~rl.enabled
  THEN [allowed |-> TRUE, limiter |-> rl]
  ELSE LET r1 == cleanup_old_buckets(rl, t)
           b0 == IF user_id \in DOMAIN r1.buckets
                 THEN r1.buckets[user_id]
                 ELSE [tokens |-> r1.requests_per_window, last_reset |-> t]
           b1 == IF t - b0.last_reset >= r1.window_seconds
                 THEN [tokens |-> r1.requests_per_window, last_reset |-> t]
                 ELSE b0
           allowed == b1.tokens > 0
           b2 == IF allowed THEN [b1 EXCEPT !.tokens = b1.tokens - 1] ELSE b1
       IN [allowed |-> allowed,
           limiter |-> [r1 EXCEPT !.buckets =
                          [u \in DOMAIN r1.buckets \cup {user_id} |->
                             IF u = user_id THEN b2 ELSE r1.buckets[u]]]]

\* the reference limiter: check_rate_limit without the clean-up, so that no
\* bucket is ever removed
never_evicting_check(rl, user_id, t) ==
  IF ~rl.enabled
  THEN [allowed |-> TRUE, limiter |-> rl]
  ELSE LET b0 == IF user_id \in DOMAIN rl.buckets
                 THEN rl.buckets[user_id]
                 ELSE [tokens |-> rl.requests_per_window, last_reset |-> t]
           b1 == IF t - b0.last_reset >= rl.window_seconds
                 THEN [tokens |-> rl.requests_per_window, last_reset |-> t]
                 ELSE b0
           allowed == b1.tokens > 0
           b2 == IF allowed THEN [b1 EXCEPT !.tokens = b1.tokens - 1] ELSE b1
       IN [allowed |-> allowed,
           limiter |-> [rl EXCEPT !.buckets =
                          [u \in DOMAIN rl.buckets \cup {user_id} |->
                             IF u = user_id THEN b2 ELSE rl.buckets[u]]]]

\* TeamManager._check_rate_limit: the limiter is created on first use
manager_check_rate_limit(rl, cfg, user_id, t) ==
  check_rate_limit(IF rl.created THEN rl ELSE RateLimiter(cfg, t), user_id, t)

\* ------------------------------------------------------------- history
NoRestore == [name |-> 0, snapshot |-> 0, before |-> NoFile, ok |-> FALSE]
NoUndo == [active |-> FALSE, target |-> NoFile, between |-> NoFile,
           firstOk |-> FALSE, secondOk |-> FALSE]
NoCorrupt == [active |-> FALSE, teams |-> NoTeams]

\* a user's current window: when it began (-1: no check yet) and how many
\* checks it allowed
NoWindow == [reset |-> -1, allowed |-> 0]
NoCheck == [user |-> None, at |-> 0, allowed |-> FALSE, reference |-> FALSE]

NoSaved == [valid |-> FALSE, teams |-> NoTeams]

HistInit(d) ==
  [ops |-> 0,                 \* operations performed so far
   saves |-> 0,               \* completed runs of save()
   snaps |-> <<>>,            \* every backup file ever created, in order
   restore |-> NoRestore,     \* the restore performed by the last operation
   undo |-> NoUndo,           \* set when that restore undid the one before it
   corrupt |-> NoCorrupt,     \* set while the document holds malformed bytes
   initial |-> d,             \* the document the run started with
   written |-> {},            \* every document some write completed
   observed |-> [p \in Procs |-> NoFile],  \* what each load read
   snapOf |-> [p \in Procs |-> NoFile],    \* what each save backed up
   replaced |-> [p \in Procs |-> NoFile], \* what each rename replaced
   checks |-> 0,              \* rate-limit checks made so far
   ticks |-> 0,               \* times the clock was moved on
   window |-> [u \in RateUsers |-> NoWindow], \* per user: the window so far
   checked |-> NoCheck,       \* the last rate-limit check
   reference |-> NoLimiter,   \* the limiter that never evicts, same checks
   saved |-> NoSaved,         \* the teams the document was last saved from
   commits |-> <<>>,          \* processes in the order their saves renamed
   logged |-> <<>>]           \* processes in the order their records began

Outcome(op, outcome) == [op |-> op, outcome |-> outcome]

NoCommand == [op |-> None, team |-> NoTeam]

\* a call with its arguments; arguments a call does not take stay at these
\* values
Call(op) ==
  [op |-> op, team |-> NoTeam, role |-> None, to_role |-> None,
   person |-> None, override |-> FALSE, reason |-> None, confirmed |-> FALSE]

NoCall == Call(None)

NoAnswer == [asked |-> FALSE]

\* ----------------------------------------------------------- SpecAuth
Operations == {"initialize project", "assign role", "reassign role"}

BaseInit ==
  /\ now = 1
  /\ backups = {}
  /\ audit = <<>>
  /\ lock = 0
  /\ template = PristineTeams
  /\ pc = [p \in Procs |-> "idle"]
  /\ teams = [p \in Procs |-> NoTeams]
  /\ shared = [p \in Procs |-> {}]
  /\ cmd = [p \in Procs |-> NoCommand]
  /\ data = [p \in Procs |-> NoFile]
  /\ tmp = [p \in Procs |-> NoFile]
  /\ result = [p \in Procs |-> Outcome(None, None)]
  /\ limiter = NoLimiter
  /\ call = NoCall
  /\ structured = <<>>
  /\ answer = NoAnswer

InitAuth ==
  /\ BaseInit
  /\ faults = NoFaults
  /\ doc = NoFile
  /\ user = [p \in Procs |-> NoUser]
  /\ max_backups = 1
  /\ hist = HistInit(doc)
  /\ authIn \in [user : Users, operation : Operations,
                  team_id : TeamIds \cup {NoTeam}]
  /\ authOut = "pending"
  /\ rate_config = DefaultRateConfig

Authorize ==
  /\ authOut = "pending"
  /\ authOut' = require_auth(authIn.user, authIn.team_id)
  /\ UNCHANGED <<now, doc, backups, audit, lock, template, pc, user, teams,
                 shared, cmd, data, tmp, result, max_backups, hist, authIn,
                 limiter, rate_config, faults, call, structured, answer>>

NextAuth == Authorize

SpecAuth == InitAuth /\ [][NextAuth]_vars

\* C5: the authorization check allows exactly the users that exist, have
\* level >= team-lead and, when a target team is given, are admin or the
\* team-lead assigned to that team; everyone else gets PermissionDenied.
Expected_allow(u, t) ==
  /\ u # NoUser
  /\ u.role \in {"team-lead", "admin"}
  /\ t = NoTeam \/ u.role = "admin" \/ (u.role = "team-lead" /\ u.team_id = t)

C5_RbacMatrix ==
  authOut # "pending" =>
    /\ authOut \in {"ok", "PermissionDenied"}
    /\ authOut = "ok" <=> Expected_allow(authIn.user, authIn.team_id)

C5_Witness ==
  /\ authOut = "PermissionDenied"
  /\ authIn.user.role = "team-lead"
  /\ authIn.user.team_id # NoTeam
  /\ authIn.team_id \notin {NoTeam, authIn.user.team_id}

\* ------------------------------------------------------------- SpecSeq
\* One manager instance M at a time; every action is one whole call.
M == 1

SeqUsers ==
  {NoUser, ViewerUser, AdminUser,
   UserContext("team-lead", "team-lead", NoTeam),
   UserContext("team-lead", "team-lead", 1)}

\* documents a project directory can hold when a command starts
InitDocs ==
  {NoFile,
   JsonDoc(CURRENT_VERSION, 0, asdict_teams(PristineTeams)),
   JsonDoc(OLD_VERSION, 0, asdict_teams(PristineTeams))}

\* the shipped limits, and a configuration that allows one request
SeqRateConfigs ==
  {DefaultRateConfig, [DefaultRateConfig EXCEPT !.requests_per_window = 1]}

InitSeq ==
  /\ BaseInit
  /\ faults = NoFaults
  /\ doc \in InitDocs
  /\ user \in [Procs -> SeqUsers]
  /\ \A p \in Procs \ {M} : user[p] = NoUser
  /\ max_backups \in 1..MaxBackupsLimit
  /\ hist = HistInit(doc)
  /\ authIn = [user |-> NoUser, operation |-> "initialize project",
               team_id |-> NoTeam]
  /\ authOut = "pending"
  /\ rate_config \in SeqRateConfigs

CanOperate == hist.ops < MaxOps

\* bookkeeping shared by every operation
Step(h) == [h EXCEPT !.ops = h.ops + 1, !.restore = NoRestore,
                      !.undo = NoUndo]

UnusedButLimiter ==
  UNCHANGED <<lock, pc, cmd, data, tmp, max_backups, authIn, authOut,
              rate_config, faults, structured, answer>>

Unused == UnusedButLimiter /\ UNCHANGED limiter

\* an operation that ends without touching memory or disk, after the rate
\* limiter became rl
FailsChecked(op, outcome, rl) ==
  /\ result' = [result EXCEPT ![M] = Outcome(op, outcome)]
  /\ hist' = Step(hist)
  /\ limiter' = rl
  /\ UNCHANGED <<now, doc, backups, audit, template, user, teams, shared>>
  /\ UnusedButLimiter

\* an operation that ends without touching memory or disk
Fails(op, outcome) == FailsChecked(op, outcome, limiter)

\* assignments through self.teams reach the template object when the team
\* is still the template's own object
WithTeam(ts, t, team) == [ts EXCEPT ![t] = team]

TemplateAfter(t, team) ==
  IF t \in shared[M] THEN [template EXCEPT ![t] = team] ELSE template

\* the in-memory change, then self.save(), then the audit record, after
\* the rate limiter became rl
CommitsChecked(op, newTeams, newTemplate, t0, action, team_id, before, after, rl) ==
  LET s == save(newTeams, doc, backups, t0, max_backups) IN
  /\ limiter' = rl
  /\ teams' = [teams EXCEPT ![M] = newTeams]
  /\ template' = newTemplate
  /\ doc' = s.doc
  /\ backups' = s.backups
  /\ audit' = IF ENABLE_AUDIT
              THEN log_action(audit, audit_entry(s.now, user[M], action,
                                                 team_id, before, after))
              ELSE audit
  /\ now' = s.now + 1
  /\ result' = [result EXCEPT ![M] = Outcome(op, "ok")]
  /\ hist' = [Step(hist) EXCEPT !.saves = hist.saves + 1,
                                !.snaps = hist.snaps \o s.snaps,
                                !.corrupt = NoCorrupt,
                                !.saved = [valid |-> TRUE, teams |-> newTeams]]
  /\ UNCHANGED <<user, shared>>
  /\ UnusedButLimiter

\* the in-memory change, then self.save(), then the audit record
Commits(op, newTeams, newTemplate, t0, action, team_id, before, after) ==
  CommitsChecked(op, newTeams, newTemplate, t0, action, team_id, before,
                 after, limiter)

\* TeamManager(project, config_path, user_context, ...): a fresh instance in
\* the same interpreter, for the same user
NewManager ==
  /\ CanOperate
  /\ teams' = [teams EXCEPT ![M] = NoTeams]
  /\ shared' = [shared EXCEPT ![M] = {}]
  /\ result' = [result EXCEPT ![M] = Outcome("new", "ok")]
  /\ hist' = Step(hist)
  /\ limiter' = NoLimiter
  /\ UNCHANGED <<now, doc, backups, audit, template, user>>
  /\ UnusedButLimiter

initialize_project ==
  /\ CanOperate
  /\ IF require_auth(user[M], NoTeam) # "ok"
     THEN Fails("initialize_project", "PermissionDenied")
     ELSE LET s == save(template, doc, backups, now, max_backups) IN
          /\ teams' = [teams EXCEPT ![M] = template]
          /\ shared' = [shared EXCEPT ![M] = TeamIds]
          /\ doc' = s.doc
          /\ backups' = s.backups
          /\ now' = s.now
          /\ result' = [result EXCEPT ![M] = Outcome("initialize_project", "ok")]
          /\ hist' = [Step(hist) EXCEPT !.saves = hist.saves + 1,
                                        !.snaps = hist.snaps \o s.snaps,
                                        !.corrupt = NoCorrupt,
                                        !.saved = [valid |-> TRUE,
                                                   teams |-> template]]
          /\ UNCHANGED <<audit, template, user>>
          /\ Unused

load ==
  /\ CanOperate
  /\ IF ~exists(doc) THEN Fails("load", "False")
     ELSE IF ~parses(doc) THEN Fails("load", "JSONDecodeError")
     ELSE /\ teams' = [teams EXCEPT ![M] = load_teams(doc.teams)]
          /\ shared' = [shared EXCEPT ![M] = {}]
          /\ doc' = migrate(doc, now)
          /\ now' = IF needs_migration(doc) THEN now + 1 ELSE now
          /\ result' = [result EXCEPT ![M] = Outcome("load", "ok")]
          /\ hist' = Step(hist)
          /\ UNCHANGED <<backups, audit, template, user>>
          /\ Unused

\* user_context.user_id if user_context else "default"
user_id_of(u) == IF u = NoUser THEN "default" ELSE u.user_id

\* variant: assigning a role also activates the team
assign_role_activates(t, role_name, assignee) ==
  /\ CanOperate
  /\ IF role_name \notin VALID_ROLES \/ assignee \notin Persons
     THEN Fails("assign_role", "False")
     ELSE IF require_auth(user[M], t) # "ok"
     THEN Fails("assign_role", "PermissionDenied")
     ELSE LET rate == manager_check_rate_limit(limiter, rate_config,
                                               user_id_of(user[M]), now)
              rl == rate.limiter
          IN IF ~rate.allowed
             THEN FailsChecked("assign_role", "RateLimited", rl)
             ELSE IF t \notin DOMAIN teams[M]
             THEN FailsChecked("assign_role", "False", rl)
             ELSE IF role_name \notin DOMAIN teams[M][t].roles
             THEN FailsChecked("assign_role", "False", rl)
             ELSE LET team == [teams[M][t] EXCEPT !.roles[role_name] = assignee,
                                                 !.status = "active"]
                  IN CommitsChecked("assign_role", WithTeam(teams[M], t, team),
                                    TemplateAfter(t, team), now, "assign_role",
                                    t, teams[M][t].roles[role_name], assignee,
                                    rl)

assign_role(t, role_name, assignee) ==
  /\ CanOperate
  /\ IF role_name \notin VALID_ROLES \/ assignee \notin Persons
     THEN Fails("assign_role", "False")
     ELSE IF require_auth(user[M], t) # "ok"
     THEN Fails("assign_role", "PermissionDenied")
     ELSE LET rate == manager_check_rate_limit(limiter, rate_config,
                                               user_id_of(user[M]), now)
              rl == rate.limiter
          IN IF ~rate.allowed
             THEN FailsChecked("assign_role", "RateLimited", rl)
             ELSE IF t \notin DOMAIN teams[M]
             THEN FailsChecked("assign_role", "False", rl)
             ELSE IF role_name \notin DOMAIN teams[M][t].roles
             THEN FailsChecked("assign_role", "False", rl)
             ELSE LET team == [teams[M][t] EXCEPT !.roles[role_name] = assignee]
                  IN CommitsChecked("assign_role", WithTeam(teams[M], t, team),
                                    TemplateAfter(t, team), now, "assign_role",
                                    t, teams[M][t].roles[role_name], assignee,
                                    rl)

unassign_role(t, role_name) ==
  /\ CanOperate
  /\ IF t \notin DOMAIN teams[M]
     THEN Fails("unassign_role", "False")
     ELSE IF role_name \notin DOMAIN teams[M][t].roles
     THEN Fails("unassign_role", "False")
     ELSE IF teams[M][t].roles[role_name] = None
     THEN Fails("unassign_role", "False")
     ELSE LET team == [teams[M][t] EXCEPT !.roles[role_name] = None] IN
          Commits("unassign_role", WithTeam(teams[M], t, team),
                  TemplateAfter(t, team), now, "unassign_role", t,
                  teams[M][t].roles[role_name], None)

reassign_role(t, from_role, to_role, person) ==
  /\ CanOperate
  /\ IF \/ from_role \notin VALID_ROLES
        \/ to_role \notin VALID_ROLES
        \/ person \notin Persons
     THEN Fails("reassign_role", "False")
     ELSE IF require_auth(user[M], t) # "ok"
     THEN Fails("reassign_role", "PermissionDenied")
     ELSE IF t \notin DOMAIN teams[M]
     THEN Fails("reassign_role", "False")
     ELSE IF from_role \notin DOMAIN teams[M][t].roles
     THEN Fails("reassign_role", "False")
     ELSE IF to_role \notin DOMAIN teams[M][t].roles
     THEN Fails("reassign_role", "False")
     ELSE IF teams[M][t].roles[from_role] # person
     THEN Fails("reassign_role", "False")
     ELSE LET cleared == [teams[M][t] EXCEPT !.roles[from_role] = None]
              team == [cleared EXCEPT !.roles[to_role] = person]
          IN Commits("reassign_role", WithTeam(teams[M], t, team),
                     TemplateAfter(t, team), now, "reassign_role", t,
                     teams[M][t].roles[to_role], person)

\* RulesLoader.get_team_size_limits: (min, max), the defaults or the values
\* of rules.json
DEFAULT_TEAM_SIZE_LIMITS == <<4, 6>>
TeamSizeLimits == {DEFAULT_TEAM_SIZE_LIMITS, <<1, 2>>}

\* sum(1 for role in team.roles if role.assigned_to)
assigned_count(team) ==
  Cardinality({r \in DOMAIN team.roles : team.roles[r] # None})

\* TeamManager.validate_team_size(team_id), under the limits of the rules
validate_team_size(team_id, limits) ==
  /\ CanOperate
  /\ IF team_id # NoTeam /\ team_id \notin DOMAIN teams[M]
     THEN Fails("validate_team_size", "KeyError")
     ELSE LET teams_to_check == IF team_id # NoTeam THEN {team_id}
                                ELSE DOMAIN teams[M]
              violations ==
                {t \in teams_to_check :
                   \/ assigned_count(teams[M][t]) < limits[1]
                   \/ assigned_count(teams[M][t]) > limits[2]}
          IN Fails("validate_team_size",
                   IF violations = {} THEN "valid" ELSE "invalid")

\* variant: the override flag is accepted from anybody, with or without reason
start_team_override_unchecked(t, override, reason) ==
  /\ CanOperate
  /\ IF t \notin DOMAIN teams[M]
     THEN Fails("start_team", "False")
     ELSE LET team == [teams[M][t] EXCEPT !.status = "active",
                                          !.started_at = now]
          IN Commits("start_team", WithTeam(teams[M], t, team),
                     TemplateAfter(t, team), now + 1, "start_team", t,
                     teams[M][t].status, "active")

start_team(t, override, reason) ==
  /\ CanOperate
  /\ IF t \notin DOMAIN teams[M]
     THEN Fails("start_team", "False")
     ELSE IF override /\ (user[M] = NoUser \/ ~has_permission(user[M], "admin"))
     THEN Fails("start_team", "False")
     ELSE IF override /\ reason \in {None, ""}
     THEN Fails("start_team", "False")
     ELSE LET team == [teams[M][t] EXCEPT !.status = "active",
                                          !.started_at = now]
          IN Commits("start_team", WithTeam(teams[M], t, team),
                     TemplateAfter(t, team), now + 1, "start_team", t,
                     teams[M][t].status, "active")

\* variant: only an active team can be completed
complete_team_only_active(t) ==
  /\ CanOperate
  /\ IF t \notin DOMAIN teams[M] \/ teams[M][t].status # "active"
     THEN Fails("complete_team", "False")
     ELSE LET team == [teams[M][t] EXCEPT !.status = "completed",
                                          !.completed_at = now]
          IN Commits("complete_team", WithTeam(teams[M], t, team),
                     TemplateAfter(t, team), now + 1, "complete_team", t,
                     teams[M][t].status, "completed")

complete_team(t) ==
  /\ CanOperate
  /\ IF t \notin DOMAIN teams[M]
     THEN Fails("complete_team", "False")
     ELSE LET team == [teams[M][t] EXCEPT !.status = "completed",
                                          !.completed_at = now]
          IN Commits("complete_team", WithTeam(teams[M], t, team),
                     TemplateAfter(t, team), now + 1, "complete_team", t,
                     teams[M][t].status, "completed")

delete_team(t, confirmed) ==
  /\ CanOperate
  /\ IF t \notin DOMAIN teams[M]
     THEN Fails("delete_team", "not_found")
     ELSE IF ~confirmed
     THEN Fails("delete_team", "requires_confirmation")
     ELSE Commits("delete_team",
                  [id \in DOMAIN teams[M] \ {t} |-> teams[M][id]],
                  template, now, "delete_team", t, None, None)

\* the confirmed branch logs, unlinks the document and falls off the end of
\* the function: the caller receives None
delete_project(confirmed) ==
  /\ CanOperate
  /\ IF ~exists(doc)
     THEN Fails("delete_project", "not_found")
     ELSE IF ~confirmed
     THEN Fails("delete_project", "requires_confirmation")
     ELSE \* the ledger line is written first; config_path.unlink() may
          \* then raise, which is caught and only reported in the message
          /\ audit' = IF ENABLE_AUDIT
                      THEN log_action(audit, audit_entry(now + 1, user[M],
                                         "delete_project", NoTeam, None, None))
                      ELSE audit
          /\ now' = now + 2
          /\ \E unlinked \in BOOLEAN : doc' = IF unlinked THEN NoFile ELSE doc
          /\ result' = [result EXCEPT ![M] = Outcome("delete_project", "None")]
          /\ hist' = [Step(hist) EXCEPT !.corrupt = NoCorrupt,
                                        !.saved = NoSaved]
          /\ UNCHANGED <<backups, template, user, teams, shared>>
          /\ Unused

BackupNames == {b.ts : b \in backups}
MissingName == 0
\* names a caller can pass: a listed backup, the pre-restore backup the last
\* restore announced, or a name that is not there
RestoreNames == BackupNames \cup {hist.restore.snapshot, MissingName}

\* TeamManager.restore_backup: pre-restore snapshot, BackupManager.restore_backup
\* (temporary file, then rename), self.load(), audit record
restore_backup(name) ==
  /\ CanOperate
  /\ LET snap == name \in BackupNames /\ exists(doc)
         bs1 == IF snap THEN create_backup(backups, doc, now, max_backups)
                ELSE backups
         t1 == IF snap THEN now + 1 ELSE now
         made == snap /\ ~faults.backup
         found == \E b \in bs1 : b.ts = name
         src == CHOOSE b \in backups : b.ts = name
         restored == Gunzip(src.content)
         undoes == hist.restore.snapshot # 0 /\ name = hist.restore.snapshot
         h1 == [Step(hist) EXCEPT
                  !.snaps = IF made
                            THEN Append(hist.snaps, BackupFile(now, doc))
                            ELSE hist.snaps,
                  !.restore = [name |-> name,
                               snapshot |-> IF made THEN now ELSE 0,
                               before |-> doc, ok |-> found],
                  !.undo = [active |-> undoes,
                            target |-> hist.restore.before,
                            between |-> doc,
                            firstOk |-> hist.restore.ok,
                            secondOk |-> found],
                  !.corrupt = IF found THEN NoCorrupt ELSE hist.corrupt,
                  !.saved = IF found THEN NoSaved ELSE hist.saved]
     IN /\ backups' = bs1
        /\ hist' = h1
        /\ UNCHANGED <<template, user>>
        /\ Unused
        /\ IF name \notin BackupNames
           THEN /\ result' = [result EXCEPT
                                ![M] = Outcome("restore_backup", "not_found")]
                /\ UNCHANGED <<now, doc, audit, teams, shared>>
           ELSE IF ~found
           THEN \* gzip.open raises; the failure is reported
                /\ result' = [result EXCEPT
                                ![M] = Outcome("restore_backup", "failed")]
                /\ now' = t1
                /\ UNCHANGED <<doc, audit, teams, shared>>
           ELSE IF ~parses(restored)
           THEN \* the reload raises after the document was replaced
                /\ result' = [result EXCEPT
                        ![M] = Outcome("restore_backup", "JSONDecodeError")]
                /\ doc' = restored
                /\ now' = t1
                /\ UNCHANGED <<audit, teams, shared>>
           ELSE /\ doc' = migrate(restored, t1)
                /\ teams' = [teams EXCEPT ![M] = load_teams(restored.teams)]
                /\ shared' = [shared EXCEPT ![M] = {}]
                /\ audit' = IF ENABLE_AUDIT
                            THEN log_action(audit, audit_entry(t1 + 1, user[M],
                                        "restore_backup", NoTeam, None, None))
                            ELSE audit
                /\ now' = t1 + 2
                /\ result' = [result EXCEPT
                                ![M] = Outcome("restore_backup", "ok")]

\* the environment replaces the document file with malformed bytes
Corrupt ==
  /\ CanOperate
  /\ parses(doc)
  /\ doc' = Garbage
  /\ hist' = [Step(hist) EXCEPT
                !.corrupt = [active |-> TRUE, teams |-> load_teams(doc.teams)],
                !.saved = NoSaved]
  /\ result' = [result EXCEPT ![M] = Outcome("corrupt", "ok")]
  /\ UNCHANGED <<now, backups, audit, template, user, teams, shared>>
  /\ Unused

RoleInputs == VALID_ROLES \cup {BadRole}
PersonInputs == Persons \cup {BadPerson}

ReasonInputs == {None, "", "because"}

\* the call is not traced
Untraced == call' = NoCall

NextSeq ==
  \/ NewManager /\ Untraced
  \/ initialize_project /\ Untraced
  \/ load /\ Untraced
  \/ \E t \in TeamIds, r \in RoleInputs, a \in PersonInputs :
       assign_role(t, r, a) /\ Untraced
  \/ \E t \in TeamIds, r \in RoleInputs : unassign_role(t, r) /\ Untraced
  \/ \E t \in TeamIds, f \in RoleInputs, r \in RoleInputs, a \in PersonInputs :
       reassign_role(t, f, r, a) /\ Untraced
  \/ \E t \in TeamIds, o \in BOOLEAN, r \in ReasonInputs :
       start_team(t, o, r) /\ Untraced
  \/ \E t \in TeamIds : complete_team(t) /\ Untraced
  \/ \E t \in TeamIds, c \in BOOLEAN : delete_team(t, c) /\ Untraced
  \/ \E c \in BOOLEAN : delete_project(c) /\ Untraced
  \/ \E n \in RestoreNames : restore_backup(n) /\ Untraced
  \/ Corrupt /\ Untraced

SpecSeq == InitSeq /\ [][NextSeq]_vars

\* ------------------------------------------------------------- SpecCall
\* The operations of SpecSeq on an initialized project, with the arguments
\* of the calls that take a role, an override or a confirmation recorded.
InitCall ==
  /\ InitSeq
  /\ doc = JsonDoc(CURRENT_VERSION, 0, asdict_teams(PristineTeams))
  /\ max_backups = 1
  /\ rate_config = DefaultRateConfig

NextCall ==
  \/ NewManager /\ Untraced
  \/ initialize_project /\ Untraced
  \/ load /\ Untraced
  \/ \E t \in TeamIds, r \in RoleInputs, a \in PersonInputs :
       /\ assign_role(t, r, a)
       /\ call' = [Call("assign_role") EXCEPT !.team = t, !.role = r,
                                              !.person = a]
  \/ \E t \in TeamIds, r \in RoleInputs :
       /\ unassign_role(t, r)
       /\ call' = [Call("unassign_role") EXCEPT !.team = t, !.role = r]
  \/ \E t \in TeamIds \cup {NoTeam}, l \in TeamSizeLimits :
       /\ validate_team_size(t, l)
       /\ call' = [Call("validate_team_size") EXCEPT !.team = t]
  \/ \E t \in TeamIds, f \in RoleInputs, r \in RoleInputs, a \in PersonInputs :
       /\ reassign_role(t, f, r, a)
       /\ call' = [Call("reassign_role") EXCEPT !.team = t, !.role = f,
                                                !.to_role = r, !.person = a]
  \/ \E t \in TeamIds, o \in BOOLEAN, r \in ReasonInputs :
       /\ start_team(t, o, r)
       /\ call' = [Call("start_team") EXCEPT !.team = t, !.override = o,
                                             !.reason = r]
  \/ \E t \in TeamIds : complete_team(t) /\ Untraced
  \/ \E t \in TeamIds, c \in BOOLEAN :
       /\ delete_team(t, c)
       /\ call' = [Call("delete_team") EXCEPT !.team = t, !.confirmed = c]
  \/ \E c \in BOOLEAN :
       /\ delete_project(c)
       /\ call' = [Call("delete_project") EXCEPT !.confirmed = c]

SpecCall == InitCall /\ [][NextCall]_vars

\* ------------------------------------------------------------ SpecQuery
\* Commands write the audit ledger and the structured log; afterwards the
\* logs are queried once, through AuditLogger.query_audit_log or through
\* LogAggregator.query.
NoTime == 0

\* a line of a structured log file: it has a timestamp and details, but no
\* "user" and no "action" key (entry.get(key, "") yields "")
structured_entry(t, team_id) ==
  [timestamp |-> t, user |-> "", role |-> "", action |-> "",
   team_id |-> team_id, before |-> None, after |-> None, part |-> "whole"]

\* json.loads(line) does not raise
parsable(line) == line.part = "whole"

\* the filters of a query; None, NoTime and NoTeam stand for "not given"
Filters ==
  [since : {NoTime, 2}, until : {NoTime, 2}, user : {None, "admin"},
   action : {None, "start_team"}, team_id : {NoTeam, 1}]

\* the filter block of query_audit_log, and LogAggregator._matches_filters
\* with the same filters
matches_filters(e, f) ==
  /\ f.since # NoTime => e.timestamp >= f.since
  /\ f.until # NoTime => e.timestamp <= f.until
  /\ f.user # None => e.user = f.user
  /\ f.action # None => e.action = f.action
  /\ f.team_id # NoTeam => e.team_id = f.team_id

\* the reading loop shared by both queries: lines from position i on are
\* parsed, filtered and appended to results; the loop ends when an append
\* makes the results reach the limit
RECURSIVE read_matching(_, _, _, _, _)
read_matching(lines, i, f, limit, results) ==
  IF i > Len(lines) THEN results
  ELSE IF ~parsable(lines[i]) \/ ~matches_filters(lines[i], f)
  THEN read_matching(lines, i + 1, f, limit, results)
  ELSE LET appended == Append(results, lines[i])
       IN IF Len(appended) >= limit THEN appended
          ELSE read_matching(lines, i + 1, f, limit, appended)

\* AuditLogger.query_audit_log
query_audit_log(ledger, f, limit) == read_matching(ledger, 1, f, limit, <<>>)

\* results.sort(key=lambda x: x.get("timestamp", "")): a stable sort
RECURSIVE insert_by_timestamp(_, _)
insert_by_timestamp(sorted, e) ==
  IF sorted = <<>> THEN <<e>>
  ELSE IF sorted[Len(sorted)].timestamp <= e.timestamp THEN Append(sorted, e)
  ELSE Append(insert_by_timestamp(SubSeq(sorted, 1, Len(sorted) - 1), e),
              sorted[Len(sorted)])

RECURSIVE sort_by_timestamp(_)
sort_by_timestamp(results) ==
  IF results = <<>> THEN <<>>
  ELSE insert_by_timestamp(
         sort_by_timestamp(SubSeq(results, 1, Len(results) - 1)),
         results[Len(results)])

\* LogAggregator.query with sources audit and structured: each loop returns
\* the results as they are once the limit is reached; the sort is reached
\* only when both loops ran to their end
aggregator_query(ledger, slog, f, limit) ==
  LET fromAudit == read_matching(ledger, 1, f, limit, <<>>)
      fromBoth == read_matching(slog, 1, f, limit, fromAudit)
  IN IF Len(fromAudit) >= limit THEN fromAudit
     ELSE IF Len(fromBoth) >= limit /\ fromBoth # fromAudit THEN fromBoth
     ELSE sort_by_timestamp(fromBoth)

InitQuery ==
  /\ BaseInit
  /\ faults = NoFaults
  /\ doc = NoFile
  /\ user = [p \in Procs |-> NoUser]
  /\ max_backups = 1
  /\ hist = HistInit(doc)
  /\ authIn = [user |-> NoUser, operation |-> "initialize project",
               team_id |-> NoTeam]
  /\ authOut = "pending"
  /\ rate_config = DefaultRateConfig

QueryUnused ==
  UNCHANGED <<doc, backups, lock, template, pc, user, teams, shared, cmd,
              data, tmp, result, max_backups, hist, authIn, authOut, limiter,
              rate_config, faults, call>>

\* the logs are written before they are queried, and hold MaxLines lines
CanWrite == ~answer.asked /\ Len(audit) + Len(structured) < MaxLines

\* log_action called by a command of user u
WriteAudit(u, action, team_id) ==
  /\ CanWrite
  /\ audit' = log_action(audit, audit_entry(now, u, action, team_id, None, None))
  /\ now' = now + 1
  /\ UNCHANGED <<structured, answer>>
  /\ QueryUnused

\* a line of the ledger that is not JSON: a write that stopped half way
WriteTorn ==
  /\ CanWrite
  /\ audit' = Append(audit, [audit_entry(now, NoUser, "start_team", 1, None,
                                          None) EXCEPT !.part = "head"])
  /\ now' = now + 1
  /\ UNCHANGED <<structured, answer>>
  /\ QueryUnused

\* a line appended to a structured log file
WriteStructured(team_id) ==
  /\ CanWrite
  /\ structured' = Append(structured, structured_entry(now, team_id))
  /\ now' = now + 1
  /\ UNCHANGED <<audit, answer>>
  /\ QueryUnused

QueryAudit(f, limit) ==
  /\ ~answer.asked
  /\ answer' = [asked |-> TRUE, query |-> "query_audit", filters |-> f,
                limit |-> limit, results |-> query_audit_log(audit, f, limit)]
  /\ UNCHANGED <<now, audit, structured>>
  /\ QueryUnused

QueryLogs(f, limit) ==
  /\ ~answer.asked
  /\ answer' = [asked |-> TRUE, query |-> "aggregator_query", filters |-> f,
                limit |-> limit,
                results |-> aggregator_query(audit, structured, f, limit)]
  /\ UNCHANGED <<now, audit, structured>>
  /\ QueryUnused

\* query_audit_log() called without any filter
NoFilters ==
  [since |-> NoTime, until |-> NoTime, user |-> None, action |-> None,
   team_id |-> NoTeam]

\* AuditLogger.get_recent_actions(count): query_audit_log(limit=count)
get_recent_actions(ledger, count) == query_audit_log(ledger, NoFilters, count)

\* TeamManager.get_recent_audit(count)
GetRecentAudit(count) ==
  /\ ~answer.asked
  /\ answer' = [asked |-> TRUE, query |-> "get_recent_audit",
                filters |-> NoFilters, limit |-> count,
                results |-> get_recent_actions(audit, count)]
  /\ UNCHANGED <<now, audit, structured>>
  /\ QueryUnused

NextQuery ==
  \/ \E u \in {NoUser, AdminUser}, a \in {"start_team", "complete_team"},
        t \in TeamIds : WriteAudit(u, a, t)
  \/ WriteTorn
  \/ \E t \in TeamIds : WriteStructured(t)
  \/ \E f \in Filters, limit \in 1..MaxLimit : QueryAudit(f, limit)
  \/ \E f \in Filters, limit \in 1..MaxLimit : QueryLogs(f, limit)
  \/ \E count \in 1..MaxLimit : GetRecentAudit(count)

SpecQuery == InitQuery /\ [][NextQuery]_vars

\* ------------------------------------------------------------- SpecProj
\* Managers of several projects work in one directory: they share the backup
\* directory .teams/backups and the ledger .teams/audit.log.  Each manager
\* saves (a backup is taken and old backups are cleaned up) and logs; then
\* one manager lists its backups or queries the ledger.

\* BackupManager._get_backup_path: {safe_name}_{timestamp}.json.gz, kept as
\* the name parts of the project and the timestamp
project_backup_file(P, t, d) == [stem |-> P] @@ BackupFile(t, d)

\* backup_dir.glob(f"{project_name}_*.json.gz"): the file name starts with
\* the project name and an underscore
glob_matches(P, f) ==
  /\ Len(P) <= Len(f.stem)
  /\ SubSeq(f.stem, 1, Len(P)) = P

\* create_backup of project P: the copy, then _cleanup_old_backups over the
\* files its glob finds
project_create_backup(bs, P, d, t, K) ==
  LET all == bs \cup {project_backup_file(P, t, d)}
      globbed == {f \in all : glob_matches(P, f)}
  IN (all \ globbed) \cup cleanup_old_backups(globbed, K)

\* BackupManager.list_backups of project P
list_backups(bs, P) == {f \in bs : glob_matches(P, f)}

InitProj ==
  /\ BaseInit
  /\ faults = NoFaults
  /\ doc = JsonDoc(CURRENT_VERSION, 0, asdict_teams(PristineTeams))
  /\ user = [p \in Procs |-> NoUser]
  /\ max_backups \in 1..MaxBackupsLimit
  /\ hist = HistInit(doc)
  /\ authIn = [user |-> NoUser, operation |-> "initialize project",
               team_id |-> NoTeam]
  /\ authOut = "pending"
  /\ rate_config = DefaultRateConfig

ProjUnused ==
  UNCHANGED <<doc, lock, template, pc, user, teams, shared, cmd, data, tmp,
              result, max_backups, authIn, authOut, limiter, rate_config,
              faults, call, structured>>

\* an operation of project P's manager that saves and logs: backup of the
\* project's document, clean-up, audit record
ProjectSave(P, action, team_id) ==
  /\ CanOperate
  /\ ~answer.asked
  /\ backups' = project_create_backup(backups, P, doc, now, max_backups)
  /\ audit' = log_action(audit, [audit_entry(now + 1, NoUser, action, team_id,
                                             None, None) EXCEPT !.project = P])
  /\ now' = now + 2
  /\ hist' = Step(hist)
  /\ UNCHANGED answer
  /\ ProjUnused

\* TeamManager.list_backups of project P's manager
ProjectList(P) ==
  /\ ~answer.asked
  /\ answer' = [asked |-> TRUE, project |-> P, query |-> "list_backups",
                results |-> <<>>, listed |-> list_backups(backups, P)]
  /\ UNCHANGED <<now, backups, audit, hist>>
  /\ ProjUnused

\* TeamManager.get_team_history(team_id) of project P's manager:
\* query_audit_log(team_id=team_id, limit=1000)
ProjectHistory(P, team_id) ==
  /\ ~answer.asked
  /\ answer' = [asked |-> TRUE, project |-> P, query |-> "get_team_history",
                results |-> query_audit_log(audit,
                              [since |-> NoTime, until |-> NoTime,
                               user |-> None, action |-> None,
                               team_id |-> team_id], HISTORY_LIMIT),
                listed |-> {}]
  /\ UNCHANGED <<now, backups, audit, hist>>
  /\ ProjUnused

NextProj ==
  \/ \E P \in ProjectNames, a \in {"start_team", "complete_team"},
        t \in TeamIds : ProjectSave(P, a, t)
  \/ \E P \in ProjectNames : ProjectList(P)
  \/ \E P \in ProjectNames, t \in TeamIds : ProjectHistory(P, t)

SpecProj == InitProj /\ [][NextProj]_vars

\* ------------------------------------------------------------ SpecFault
\* The operations of SpecSeq, called by an administrator on an initialized
\* project while the backup directory, the audit ledger, both or neither
\* cannot be written.
InitFault ==
  /\ BaseInit
  /\ faults \in [backup : BOOLEAN, audit : BOOLEAN]
  /\ doc = JsonDoc(CURRENT_VERSION, 0, asdict_teams(PristineTeams))
  /\ user = [p \in Procs |-> IF p = M THEN AdminUser ELSE NoUser]
  /\ max_backups = MaxBackupsLimit
  /\ hist = HistInit(doc)
  /\ authIn = [user |-> NoUser, operation |-> "initialize project",
               team_id |-> NoTeam]
  /\ authOut = "pending"
  /\ rate_config = DefaultRateConfig

SpecFault == InitFault /\ [][NextSeq]_vars

\* ------------------------------------------------------------ SpecRate
\* One RateLimiter instance, checked by several users while time passes.
RateConfigs ==
  [enabled : BOOLEAN, requests_per_window : 1..MaxRequests,
   window_seconds : 1..MaxWindow]

InitRate ==
  /\ BaseInit
  /\ faults = NoFaults
  /\ doc = NoFile
  /\ user = [p \in Procs |-> NoUser]
  /\ max_backups = 1
  /\ hist = HistInit(doc)
  /\ authIn = [user |-> NoUser, operation |-> "initialize project",
               team_id |-> NoTeam]
  /\ authOut = "pending"
  /\ rate_config \in RateConfigs

RateUnused ==
  UNCHANGED <<doc, backups, audit, lock, template, pc, user, teams, shared,
              cmd, data, tmp, max_backups, authIn, authOut, rate_config,
              faults, call, structured, answer>>

\* the window a check at time t by a user with window w falls into
WindowAt(w, t) ==
  IF w.reset = -1 \/ t - w.reset >= rate_config.window_seconds
  THEN [reset |-> t, allowed |-> 0]
  ELSE w

\* TeamManager._check_rate_limit(user_id)
Check(u) ==
  /\ hist.checks < MaxChecks
  /\ LET rate == manager_check_rate_limit(limiter, rate_config, u, now)
         w == WindowAt(hist.window[u], now)
         ref == never_evicting_check(IF hist.reference.created
                                     THEN hist.reference
                                     ELSE RateLimiter(rate_config, now),
                                     u, now)
     IN /\ limiter' = rate.limiter
        /\ result' = [result EXCEPT
                        ![M] = Outcome("check_rate_limit",
                                       IF rate.allowed THEN "True" ELSE "False")]
        /\ hist' = [hist EXCEPT
                      !.checks = hist.checks + 1,
                      !.window[u] = [w EXCEPT !.allowed =
                                       w.allowed + IF rate.allowed THEN 1 ELSE 0],
                      !.checked = [user |-> u, at |-> now,
                                   allowed |-> rate.allowed,
                                   reference |-> ref.allowed],
                      !.reference = ref.limiter]
  /\ UNCHANGED now
  /\ RateUnused

\* time.time() moves on by d seconds
Tick(d) ==
  /\ hist.ticks < MaxTicks
  /\ now' = now + d
  /\ hist' = [hist EXCEPT !.ticks = hist.ticks + 1]
  /\ UNCHANGED <<limiter, result>>
  /\ RateUnused

NextRate ==
  \/ \E u \in RateUsers : Check(u)
  \/ \E d \in {1, CLEANUP_INTERVAL - 1, CLEANUP_INTERVAL} : Tick(d)

SpecRate == InitRate /\ [][NextRate]_vars

\* ------------------------------------------------------------ SpecConc
\* Each process is one command-line invocation: main() builds a manager
\* without user context, loads the document, runs one operation (which
\* saves) and exits.  Steps are the points where another process can act.
Commands ==
  [op : {"start_team", "complete_team"}, team : TeamIds]

InitConc ==
  /\ BaseInit
  /\ faults = NoFaults
  /\ doc \in InitDocs \ {NoFile}
  /\ user = [p \in Procs |-> NoUser]
  /\ max_backups \in 1..MaxBackupsLimit
  /\ hist = HistInit(doc)
  /\ authIn = [user |-> NoUser, operation |-> "initialize project",
               team_id |-> NoTeam]
  /\ authOut = "pending"
  /\ rate_config = DefaultRateConfig

\* variant: the lock excludes nobody
CanAcquire_always(l, p) == TRUE

\* fcntl.flock(LOCK_EX | LOCK_NB) on the lock file succeeds
CanAcquire(l, p) == l = 0

Exits(p, op, outcome) ==
  /\ pc' = [pc EXCEPT ![p] = "done"]
  /\ result' = [result EXCEPT ![p] = Outcome(op, outcome)]

ConcUnused ==
  UNCHANGED <<template, user, shared, max_backups, authIn, authOut, limiter,
              rate_config, faults, call, structured, answer>>

\* main(): parse the command, build the manager, enter load() and take the lock
Begin(p, c) ==
  /\ pc[p] = "idle"
  /\ cmd' = [cmd EXCEPT ![p] = c]
  /\ IF ~exists(doc)
     THEN /\ Exits(p, "load", "False")
          /\ UNCHANGED lock
     ELSE /\ CanAcquire(lock, p)
          /\ lock' = p
          /\ pc' = [pc EXCEPT ![p] = "load_read"]
          /\ UNCHANGED result
  /\ UNCHANGED <<now, doc, backups, audit, teams, data, tmp, hist>>
  /\ ConcUnused

\* load(): json.load under the lock, release, rebuild self.teams
LoadRead(p) ==
  /\ pc[p] = "load_read"
  /\ lock' = 0
  /\ data' = [data EXCEPT ![p] = doc]
  /\ hist' = [hist EXCEPT !.observed[p] = doc]
  /\ IF ~parses(doc)
     THEN /\ Exits(p, "load", "JSONDecodeError")
          /\ UNCHANGED teams
     ELSE /\ teams' = [teams EXCEPT ![p] = load_teams(doc.teams)]
          /\ pc' = [pc EXCEPT ![p] = IF needs_migration(doc)
                                     THEN "mig_lock" ELSE "op"]
          /\ UNCHANGED result
  /\ UNCHANGED <<now, doc, backups, audit, cmd, tmp>>
  /\ ConcUnused

\* load(): migration write-back, lock taken and the document opened with 'w'
MigOpen(p) ==
  /\ pc[p] = "mig_lock"
  /\ CanAcquire(lock, p)
  /\ lock' = p
  /\ data' = [data EXCEPT ![p] = migrate(data[p], now)]
  /\ now' = now + 1
  /\ doc' = EmptyFile
  /\ pc' = [pc EXCEPT ![p] = "mig_write"]
  /\ UNCHANGED <<backups, audit, teams, cmd, tmp, result, hist>>
  /\ ConcUnused

\* load(): json.dump of the migrated dict finished, lock released
MigWrite(p) ==
  /\ pc[p] = "mig_write"
  /\ doc' = data[p]
  /\ lock' = 0
  /\ hist' = [hist EXCEPT !.written = hist.written \cup {data[p]}]
  /\ pc' = [pc EXCEPT ![p] = "op"]
  /\ UNCHANGED <<now, backups, audit, teams, cmd, data, tmp, result>>
  /\ ConcUnused

\* the operation's change in memory
apply_command(c, ts, t) ==
  IF c.op = "start_team"
  THEN [ts EXCEPT ![c.team].status = "active", ![c.team].started_at = t]
  ELSE [ts EXCEPT ![c.team].status = "completed", ![c.team].completed_at = t]

\* start_team / complete_team up to the point where save() asks for the
\* lock: change in memory, backup of the file as it is now, dict to dump
OpBackup(p) ==
  /\ pc[p] = "op"
  /\ IF cmd[p].team \notin DOMAIN teams[p]
     THEN /\ Exits(p, cmd[p].op, "False")
          /\ UNCHANGED <<now, backups, teams, data, hist>>
     ELSE LET ts == apply_command(cmd[p], teams[p], now)
              snap == ENABLE_BACKUP /\ exists(doc)
          IN /\ teams' = [teams EXCEPT ![p] = ts]
             /\ backups' = IF snap
                           THEN create_backup(backups, doc, now + 1, max_backups)
                           ELSE backups
             /\ hist' = [hist EXCEPT
                           !.snapOf[p] = IF snap THEN doc ELSE NoFile,
                           !.snaps = IF snap
                                     THEN Append(hist.snaps, BackupFile(now + 1, doc))
                                     ELSE hist.snaps]
             /\ data' = [data EXCEPT ![p] = save_data(ts, now + 2)]
             /\ now' = now + 3
             /\ pc' = [pc EXCEPT ![p] = "save_lock"]
             /\ UNCHANGED result
  /\ UNCHANGED <<doc, audit, lock, cmd, tmp>>
  /\ ConcUnused

\* save(): lock taken, temporary file written and synced
SaveLock(p) ==
  /\ pc[p] = "save_lock"
  /\ CanAcquire(lock, p)
  /\ lock' = p
  /\ tmp' = [tmp EXCEPT ![p] = data[p]]
  /\ pc' = [pc EXCEPT ![p] = "save_rename"]
  /\ UNCHANGED <<now, doc, backups, audit, teams, cmd, data, result, hist>>
  /\ ConcUnused

\* variant: the document lock is kept while the audit record is written
SaveRename_keeps_lock(p) ==
  /\ pc[p] = "save_rename"
  /\ doc' = tmp[p]
  /\ tmp' = [tmp EXCEPT ![p] = NoFile]
  /\ hist' = [hist EXCEPT !.replaced[p] = doc,
                          !.written = hist.written \cup {tmp[p]},
                          !.saves = hist.saves + 1,
                          !.commits = Append(hist.commits, p)]
  /\ pc' = [pc EXCEPT ![p] = "audit"]
  /\ UNCHANGED <<now, backups, audit, lock, teams, cmd, data, result>>
  /\ ConcUnused

\* save(): os.replace(temp_path, config_path), lock released
SaveRename(p) ==
  /\ pc[p] = "save_rename"
  /\ doc' = tmp[p]
  /\ tmp' = [tmp EXCEPT ![p] = NoFile]
  /\ lock' = 0
  /\ hist' = [hist EXCEPT !.replaced[p] = doc,
                          !.written = hist.written \cup {tmp[p]},
                          !.saves = hist.saves + 1,
                          !.commits = Append(hist.commits, p)]
  /\ pc' = [pc EXCEPT ![p] = "audit"]
  /\ UNCHANGED <<now, backups, audit, teams, cmd, data, result>>
  /\ ConcUnused

\* variant: the failed save leaves its temporary file behind
SaveError_leaves_temp(p) ==
  /\ pc[p] = "save_rename"
  /\ lock' = 0
  /\ Exits(p, cmd[p].op, "OSError")
  /\ UNCHANGED <<now, doc, backups, audit, teams, cmd, data, tmp, hist>>
  /\ ConcUnused

\* save(): json.dump, fsync or os.replace raises inside the locked section;
\* the except branch unlinks the temporary file, FileLock.__exit__ releases
\* the lock, the exception ends the command
SaveError(p) ==
  /\ pc[p] = "save_rename"
  /\ tmp' = [tmp EXCEPT ![p] = NoFile]
  /\ lock' = 0
  /\ Exits(p, cmd[p].op, "OSError")
  /\ UNCHANGED <<now, doc, backups, audit, teams, cmd, data, hist>>
  /\ ConcUnused

\* variant: the flock on the ledger excludes nobody
CanLockAudit_always(p) == TRUE

\* fcntl.flock(LOCK_EX) on the open ledger file returns: no other process
\* is between its flock and its unlock
CanLockAudit(p) == \A q \in Procs \ {p} : pc[q] # "audit_write"

\* the entry dict the command's log_action call builds at time t
audit_line(p, t) ==
  audit_entry(t, user[p], cmd[p].op, cmd[p].team, None,
              IF cmd[p].op = "start_team" THEN "active" ELSE "completed")

\* log_action: ledger opened in append mode and locked, the first bytes of
\* the line reach the file
Audit(p) ==
  /\ pc[p] = "audit"
  /\ IF ENABLE_AUDIT
     THEN /\ CanLockAudit(p)
          /\ data' = [data EXCEPT ![p] = audit_line(p, now)]
          /\ audit' = Append(audit, [audit_line(p, now) EXCEPT !.part = "head"])
          /\ now' = now + 1
          /\ pc' = [pc EXCEPT ![p] = "audit_write"]
          /\ hist' = [hist EXCEPT !.logged = Append(hist.logged, p)]
          /\ UNCHANGED result
     ELSE /\ Exits(p, cmd[p].op, "ok")
          /\ UNCHANGED <<now, audit, data, hist>>
  /\ UNCHANGED <<doc, backups, lock, teams, cmd, tmp>>
  /\ ConcUnused

\* log_action: the rest of the line and its newline reach the file, fsync,
\* unlock; the operation returns and the command exits
AuditWritten(p) ==
  /\ pc[p] = "audit_write"
  /\ audit' = Append(audit, [data[p] EXCEPT !.part = "tail"])
  /\ Exits(p, cmd[p].op, "ok")
  /\ UNCHANGED <<now, doc, backups, lock, teams, cmd, data, tmp, hist>>
  /\ ConcUnused

\* variant: a blocking flock, the wait has no timeout
LockTimeout_never(p) ==
  /\ FALSE
  /\ UNCHANGED vars

\* FileLock.__enter__: the lock stayed with another process for the whole
\* timeout, FileLockError ends the command
LockTimeout(p) ==
  /\ pc[p] \in {"idle", "mig_lock", "save_lock"}
  /\ ~CanAcquire(lock, p)
  /\ Exits(p, "lock", "FileLockError")
  /\ UNCHANGED <<now, doc, backups, audit, lock, teams, cmd, data, tmp, hist>>
  /\ ConcUnused

NextConc ==
  \E p \in Procs :
    \/ \E c \in Commands : Begin(p, c)
    \/ LoadRead(p)
    \/ MigOpen(p)
    \/ MigWrite(p)
    \/ OpBackup(p)
    \/ SaveLock(p)
    \/ SaveRename(p)
    \/ SaveError(p)
    \/ Audit(p)
    \/ AuditWritten(p)
    \/ LockTimeout(p)

SpecConc == InitConc /\ [][NextConc]_vars

\* FileLock.__enter__ seen from process p: the first flock attempt or the
\* polling loop gets the lock, or the loop runs out of time
LockAttempt(p) ==
  \/ \E c \in Commands : Begin(p, c)
  \/ MigOpen(p)
  \/ SaveLock(p)
  \/ LockTimeout(p)

\* The polling loop of a waiting process always comes to an end; nothing is
\* assumed about how long a process that holds the lock takes.
SpecConcFair == SpecConc /\ \A p \in Procs : WF_vars(LockAttempt(p))

\* any step of the command that process p runs
ProcStep(p) ==
  \/ \E c \in Commands : Begin(p, c)
  \/ LoadRead(p)
  \/ MigOpen(p)
  \/ MigWrite(p)
  \/ OpBackup(p)
  \/ SaveLock(p)
  \/ SaveRename(p)
  \/ SaveError(p)
  \/ Audit(p)
  \/ AuditWritten(p)
  \/ LockTimeout(p)

\* Every process that can take a step eventually takes one: the commands
\* are independent operating-system processes, none of which stops for ever.
SpecConcLive == SpecConc /\ \A p \in Procs : WF_vars(ProcStep(p))

\* the process dies (kill, power loss): the kernel drops its flock, its
\* files stay as they are
Crash(p) ==
  /\ pc[p] \notin {"idle", "done", "crashed"}
  /\ pc' = [pc EXCEPT ![p] = "crashed"]
  /\ lock' = IF lock = p THEN 0 ELSE lock
  /\ UNCHANGED <<now, doc, backups, audit, teams, cmd, data, tmp, result, hist>>
  /\ ConcUnused

NextCrash ==
  \/ NextConc
  \/ \E p \in Procs : Crash(p)

SpecCrash == InitConc /\ [][NextCrash]_vars

\* ================================================================ claims

\* what a command leaves in the teams it was applied to
Applied(c, ts) ==
  /\ c.team \in DOMAIN ts
  /\ ts[c.team].status = IF c.op = "start_team" THEN "active" ELSE "completed"

AllSucceeded ==
  \A p \in Procs : pc[p] = "done" /\ result[p].outcome = "ok"

\* C1: no lost updates - when every process has run its command to the end,
\* the document on disk shows the update of every command (commands on
\* different teams do not overwrite each other's field).
C1_NoLostUpdates ==
  AllSucceeded =>
    \A p \in Procs :
      (\A q \in Procs \ {p} : cmd[q].team # cmd[p].team) =>
        (parses(doc) /\ Applied(cmd[p], load_teams(doc.teams)))

\* C2: a load only ever reads the initial document or a document that some
\* write completed; no partially written document is read.
C2_LoadReadsWholeDocument ==
  \A p \in Procs :
    hist.observed[p] # NoFile =>
      hist.observed[p] \in hist.written \cup {hist.initial}

C2_Witness ==
  \E p \in Procs, q \in Procs :
    /\ p # q
    /\ pc[q] = "save_rename"
    /\ hist.observed[p] \in hist.written
    /\ hist.observed[p] # hist.initial

\* C3: whenever no process is in the middle of writing the document, the
\* file holds a complete document - also after a process died mid-operation.
C3_CrashSafe ==
  (\A p \in Procs : pc[p] # "mig_write") => doc.kind # "empty"

\* C7: the backup a save created holds exactly the document that the save's
\* rename replaced.
C7_BackupIsReplacedDocument ==
  \A p \in Procs :
    (pc[p] \in {"audit", "audit_write", "done"} /\ exists(hist.replaced[p])) =>
      hist.snapOf[p] = hist.replaced[p]

MutatingOps ==
  {"initialize_project", "assign_role", "unassign_role", "reassign_role",
   "start_team", "complete_team", "delete_team", "delete_project",
   "restore_backup"}

Operated == hist'.ops = hist.ops + 1

\* C4: a mutating operation called without user context or by a viewer is
\* rejected and changes neither the teams in memory, the document, the
\* backups nor the audit ledger.  (Any refusal is accepted here, also one
\* reported before the gate is reached; the claim asks for PermissionDenied.)
C4_GateWrapsEveryMutation ==
  [][(/\ Operated
      /\ result'[M].op \in MutatingOps
      /\ (user[M] = NoUser \/ user[M].role = "viewer"))
     => (/\ result'[M].outcome \notin {"ok", "None"}
         /\ UNCHANGED <<teams, doc, backups, audit>>)]_vars

\* C6: initialize_project called by a team-lead raises PermissionDenied and
\* creates no document.
C6_InitializeRequiresAdmin ==
  [][(/\ Operated
      /\ result'[M].op = "initialize_project"
      /\ user[M].role = "team-lead")
     => (result'[M].outcome = "PermissionDenied" /\ doc' = doc)]_vars

Min(a, b) == IF a < b THEN a ELSE b

\* C8 as stated: after M saves, exactly min(M, K) backups exist.
C8_BackupsPerSave ==
  Cardinality(backups) = Min(hist.saves, max_backups)

\* the last n files of the sequence of snapshots taken so far
LastSnaps(n) ==
  {hist.snaps[i] : i \in (Len(hist.snaps) - n + 1)..Len(hist.snaps)}

\* C8 amended: after M snapshots (one per save or restore that found a
\* document to overwrite), exactly min(M, K) backups exist and they are the
\* min(M, K) most recent snapshots.
C8_RetentionBound ==
  /\ Cardinality(backups) = Min(Len(hist.snaps), max_backups)
  /\ backups = LastSnaps(Min(Len(hist.snaps), max_backups))

C8_Witness ==
  /\ Len(hist.snaps) > max_backups
  /\ hist.saves >= 2
  /\ Cardinality(backups) = max_backups

\* C9: a restore followed by a restore of the pre-restore snapshot that the
\* first one created leaves the document as it was before the first.
C9_RestoreReversible ==
  hist.undo.active => doc = hist.undo.target

C9_Witness ==
  /\ hist.undo.active
  /\ hist.undo.firstOk
  /\ hist.undo.secondOk
  /\ hist.undo.between # hist.undo.target
  /\ doc = hist.undo.target

\* C10: with the document replaced by malformed bytes, load fails with the
\* decode error, restoring the most recent backup succeeds and the teams
\* read back are those the document held just before the corruption.
C10_CorruptRecovery ==
  [][(/\ Operated
      /\ hist.corrupt.active
      /\ doc = Garbage
      /\ backups # {})
     => (/\ result'[M].op = "load" => result'[M].outcome = "JSONDecodeError"
         /\ (result'[M].op = "restore_backup"
             /\ hist'.restore.name = newest(backups).ts)
            => (/\ result'[M].outcome = "ok"
                /\ parses(doc')
                /\ load_teams(doc'.teams) = hist.corrupt.teams))]_vars

\* C11: every team in memory whose status is active or completed has
\* started_at set, and has completed_at set exactly when its status is
\* completed.
C11_TeamTimestamps ==
  \A t \in DOMAIN teams[M] :
    /\ teams[M][t].status \in {"active", "completed"}
         => teams[M][t].started_at # 0
    /\ teams[M][t].completed_at # 0 <=> teams[M][t].status = "completed"

TeamOps ==
  {"load", "assign_role", "unassign_role", "reassign_role", "start_team",
   "complete_team"}

\* C12: a team that is completed in the document stays completed in the
\* document through every team operation (start_team included); only a
\* restore may take it back.
C12_CompletedNotReverted ==
  [][(/\ Operated
      /\ result'[M].op \in TeamOps
      /\ parses(doc) /\ parses(doc'))
     => \A t \in DOMAIN load_teams(doc.teams) \cap DOMAIN load_teams(doc'.teams) :
          load_teams(doc.teams)[t].status = "completed"
            => load_teams(doc'.teams)[t].status = "completed"]_vars

Succeeded ==
  \/ result'[M].outcome = "ok"
  \/ result'[M].op = "delete_project" /\ exists(doc) /\ ~exists(doc')

\* C14: every successful mutating operation appends exactly one record for
\* its action to the audit ledger.
C14_EveryMutationAudited ==
  [][(Operated /\ result'[M].op \in MutatingOps /\ Succeeded)
     => (/\ Len(audit') = Len(audit) + 1
         /\ SubSeq(audit', 1, Len(audit)) = audit
         /\ audit'[Len(audit')].action = result'[M].op)]_vars

\* C15: when a record is appended to the ledger, the change it describes is
\* on disk: the project file is gone for delete_project, and holds the
\* teams the manager has in memory for every other action.
C15_ChangePrecedesRecord ==
  [][Len(audit') > Len(audit)
     => IF audit'[Len(audit')].action = "delete_project"
        THEN ~exists(doc')
        ELSE parses(doc') /\ load_teams(doc'.teams) = teams'[M]]_vars

\* the ledger holds only complete lines, each in one piece, except for the
\* line a process is writing right now
WellFormed(ledger) ==
  \A i \in 1..Len(ledger) :
    /\ ledger[i].part = "head"
         => IF i = Len(ledger)
            THEN \E p \in Procs : pc[p] = "audit_write"
            ELSE ledger[i + 1] = [ledger[i] EXCEPT !.part = "tail"]
    /\ ledger[i].part = "tail"
         => i > 1 /\ ledger[i - 1] = [ledger[i] EXCEPT !.part = "head"]

\* C16: every step leaves the ledger as it was or adds to its end, and the
\* lines of concurrent appends are never split or interleaved.
C16_LedgerAppendOnly ==
  [][/\ Len(audit') >= Len(audit)
     /\ SubSeq(audit', 1, Len(audit)) = audit
     /\ WellFormed(audit) => WellFormed(audit)']_vars

C16_Witness ==
  /\ Len(audit) = 2 * NumProcs
  /\ \A p \in Procs : pc[p] = "done"
  /\ audit[1].timestamp < audit[3].timestamp
  /\ WellFormed(audit)

\* a rate-limit check has just been made
Checked == hist'.checks = hist.checks + 1

\* C17: with the limiter enabled, a check is allowed exactly when the user's
\* window (begun at the first check, or at the first check made
\* window_seconds or more after the previous window began) has allowed fewer
\* than requests_per_window checks so far.
C17_WindowReset ==
  [][(Checked /\ rate_config.enabled)
     => LET u == hist'.checked.user
            w == WindowAt(hist.window[u], now)
        IN hist'.checked.allowed <=> w.allowed < rate_config.requests_per_window]_vars

\* a user was denied, waited for the window to end, and is then allowed
\* the full budget again and denied after it
C17_Witness ==
  /\ rate_config.enabled
  /\ hist.checked.user = "default"
  /\ ~hist.checked.allowed
  /\ hist.window["default"].reset > 1
  /\ hist.window["default"].allowed = rate_config.requests_per_window
  /\ hist.checks > 2 * rate_config.requests_per_window

\* the bucket of the manager's user has no token left and its window is
\* still running
Exhausted ==
  /\ limiter.created
  /\ limiter.enabled
  /\ user_id_of(user[M]) \in DOMAIN limiter.buckets
  /\ limiter.buckets[user_id_of(user[M])].tokens <= 0
  /\ now - limiter.buckets[user_id_of(user[M])].last_reset < limiter.window_seconds

RateLimitedOps ==
  {"assign_role", "unassign_role", "reassign_role", "start_team",
   "complete_team", "delete_team", "delete_project"}

\* C18: once the user's bucket is exhausted, every further mutating operation
\* in the same window is refused and leaves document, backups and ledger
\* unchanged.
C18_RateLimitBeforeMutation ==
  [][(Operated /\ result'[M].op \in RateLimitedOps /\ Exhausted)
     => (/\ result'[M].outcome \notin {"ok", "None"}
         /\ UNCHANGED <<doc, backups, audit>>)]_vars

\* positions at which a process asks for the document lock
LockWaiting == {"idle", "mig_lock", "save_lock"}

TimedOut(p) == result[p] = Outcome("lock", "FileLockError")

\* C19: an attempt to take the document lock always ends: it gets the lock
\* or fails with FileLockError, and it fails only while another process
\* holds the lock; the failure leaves the lock with its holder and the
\* document as it was.
C19_LockBounded ==
  /\ [][\A p \in Procs :
         (~TimedOut(p) /\ TimedOut(p)')
           => (/\ lock \notin {0, p}
               /\ lock' = lock
               /\ doc' = doc
               /\ pc'[p] = "done")]_vars
  /\ \A p \in Procs : (pc[p] \in LockWaiting) ~> (pc[p] \notin LockWaiting)

C19_Witness ==
  \E p \in Procs :
    /\ TimedOut(p)
    /\ hist.observed[p] # NoFile
    /\ \E q \in Procs \ {p} : result[q].outcome = "ok"

\* C20: loads share the lock: a load never fails to get the lock because
\* another load is holding it.
C20_LoadsShareLock ==
  [][\A p \in Procs :
       (pc[p] = "idle" /\ ~TimedOut(p) /\ TimedOut(p)')
         => pc[lock] # "load_read"]_vars

\* C21: a command that fails inside save() changes nothing visible: when the
\* command ends with FileLockError at save's request for the lock, its save
\* has put no backup file into the backup directory (and the document and
\* the ledger are as they were).
C21_FailedSaveChangesNothing ==
  [][\A p \in Procs :
       (pc[p] = "save_lock" /\ ~TimedOut(p) /\ TimedOut(p)')
         => (/\ ~exists(hist.snapOf[p])
             /\ UNCHANGED <<doc, backups, audit>>)]_vars

\* operations that end in self.save()
SavingOps ==
  {"assign_role", "unassign_role", "reassign_role", "start_team",
   "complete_team", "delete_team"}

\* C22: backup and audit are best-effort: an operation that changed the teams
\* in memory commits them to the document and reports success also when the
\* backup of the old document or the audit record cannot be written; the
\* failed write leaves the backup directory, respectively the ledger, as it
\* was.
C22_BestEffortBackupAudit ==
  [][(Operated /\ result'[M].op \in SavingOps /\ teams'[M] # teams[M])
     => (/\ result'[M].outcome = "ok"
         /\ hist'.saves = hist.saves + 1
         /\ parses(doc')
         /\ load_teams(doc'.teams) = teams'[M]
         /\ faults.backup => backups' = backups
         /\ faults.audit => audit' = audit)]_vars

C22_Witness ==
  /\ faults.backup
  /\ faults.audit
  /\ result[M] = Outcome("complete_team", "ok")
  /\ hist.saves >= 2
  /\ backups = {}
  /\ audit = <<>>
  /\ parses(doc)
  /\ load_teams(doc.teams) = teams[M]
  /\ \E t \in DOMAIN teams[M] : teams[M][t].status = "completed"

\* C23: reassign_role is all-or-nothing: the call either fails and changes
\* neither the teams in memory nor the document, or succeeds with one save
\* that leaves from_role unassigned and to_role assigned to the person.
C23_ReassignAllOrNothing ==
  [][(Operated /\ call'.op = "reassign_role")
     => IF result'[M].outcome = "ok"
        THEN /\ teams'[M][call'.team].roles[call'.role] = None
             /\ teams'[M][call'.team].roles[call'.to_role] = call'.person
             /\ hist'.saves = hist.saves + 1
             /\ load_teams(doc'.teams) = teams'[M]
        ELSE UNCHANGED <<teams, doc>>]_vars

\* the arguments of the traced call fail validate_role_name or
\* validate_person_name
InvalidCall ==
  \/ call'.role \notin VALID_ROLES
  \/ call'.person \notin Persons
  \/ call'.op = "reassign_role" /\ call'.to_role \notin VALID_ROLES

\* C27: in assign_role and reassign_role an invalid role or person name makes
\* the call return False, and a caller who is not allowed to modify the team
\* gets PermissionDenied; either way save() is not entered, so the lock is
\* not taken, and teams, document, backups and ledger stay as they were.
C27_RejectedBeforeLock ==
  [][(Operated /\ call'.op \in {"assign_role", "reassign_role"}
        /\ (InvalidCall \/ ~Expected_allow(user[M], call'.team)))
     => (/\ result'[M].outcome =
              IF InvalidCall THEN "False" ELSE "PermissionDenied"
         /\ hist'.saves = hist.saves
         /\ UNCHANGED <<teams, doc, backups, audit, lock, limiter>>)]_vars

C27_Witness ==
  /\ call.op = "reassign_role"
  /\ call.role \in VALID_ROLES
  /\ call.to_role \in VALID_ROLES
  /\ call.person \in Persons
  /\ result[M] = Outcome("reassign_role", "PermissionDenied")
  /\ user[M] = UserContext("team-lead", "team-lead", 1)
  /\ call.team \in DOMAIN teams[M]
  /\ call.role \in DOMAIN teams[M][call.team].roles
  /\ hist.saves >= 1
  /\ audit # <<>>

\* C28: start_team called with override=True succeeds only for an admin who
\* gives a non-empty reason; any other override call returns False without
\* saving: teams, document, backups and ledger stay as they were.
C28_OverrideNeedsAdminAndReason ==
  [][(Operated /\ call'.op = "start_team" /\ call'.override)
     => IF /\ user[M] # NoUser
           /\ user[M].role = "admin"
           /\ call'.reason \notin {None, ""}
        THEN call'.team \in DOMAIN teams[M] => result'[M].outcome = "ok"
        ELSE /\ result'[M].outcome = "False"
             /\ hist'.saves = hist.saves
             /\ UNCHANGED <<teams, doc, backups, audit>>]_vars

C28_Witness ==
  /\ call.op = "start_team"
  /\ call.override
  /\ call.reason = "because"
  /\ user[M] = AdminUser
  /\ result[M] = Outcome("start_team", "ok")
  /\ teams[M][call.team].status = "active"
  /\ hist.saves >= 1

\* C29: delete_team and delete_project called with confirmed=False on an
\* existing team or project change nothing and answer requires_confirmation;
\* called with confirmed=True they remove it and return a result whose
\* success is true.
C29_DeleteNeedsConfirmation ==
  [][(Operated /\ call'.op \in {"delete_team", "delete_project"}
        /\ IF call'.op = "delete_team"
           THEN call'.team \in DOMAIN teams[M]
           ELSE exists(doc))
     => IF ~call'.confirmed
        THEN /\ result'[M].outcome = "requires_confirmation"
             /\ UNCHANGED <<teams, doc, backups, audit>>
        ELSE /\ result'[M].outcome = "ok"
             /\ IF call'.op = "delete_team"
                THEN call'.team \notin DOMAIN teams'[M]
                ELSE ~exists(doc')]_vars

C25_QueryResult ==
  answer.asked =>
    /\ Len(answer.results) <= answer.limit
    /\ \A i \in 1..Len(answer.results) :
         /\ parsable(answer.results[i])
         /\ matches_filters(answer.results[i], answer.filters)
    /\ \A i \in 1..Len(answer.results) : \A j \in 1..Len(answer.results) :
         i < j => answer.results[i].timestamp <= answer.results[j].timestamp

\* positions at which a process waits for, or holds, the flock on the ledger
AuditLocking == {"audit", "audit_write"}

\* C30: audit writes never deadlock against document writes: a process that
\* waits for or holds the ledger lock does not hold the document lock, a
\* process that holds the ledger lock does not wait for the document lock,
\* and every command that was started finishes, with its result or with a
\* lock timeout.
C30_NoAuditDeadlock ==
  /\ [](\A p \in Procs :
          /\ pc[p] \in AuditLocking => lock # p
          /\ pc[p] = "audit_write" => pc[p] \notin LockWaiting)
  /\ \A p \in Procs : (pc[p] \notin {"idle", "done"}) ~> (pc[p] = "done")

\* one process holds the ledger lock while another one holds the document
\* lock
C30_Witness ==
  \E p \in Procs : \E q \in Procs \ {p} :
    /\ pc[p] = "audit_write"
    /\ lock = q
    /\ pc[q] \in {"load_read", "save_rename", "mig_write"}

\* positions inside a `with FileLock(...)` block
LockedSection == {"load_read", "mig_write", "save_rename"}

\* C31: at most one process is inside a locked section of load or save, the
\* lock is held exactly by the process that is inside one, and outside the
\* locked section of save - after it ended normally or with an exception -
\* the process has no temporary file next to the document.
C31_LockExclusiveAndReleased ==
  /\ Cardinality({p \in Procs : pc[p] \in LockedSection}) <= 1
  /\ \A p \in Procs : pc[p] \in LockedSection <=> lock = p
  /\ \A p \in Procs : pc[p] # "save_rename" => tmp[p] = NoFile

\* a save failed inside its locked section, and another process holds the
\* lock afterwards
C31_Witness ==
  \E p \in Procs : \E q \in Procs \ {p} :
    /\ result[p].outcome = "OSError"
    /\ pc[p] = "done"
    /\ lock = q
    /\ pc[q] = "save_rename"

\* C32: restore never destroys its own source: a restore of a backup that is
\* listed when the call is made finds the backup, and the backup is still
\* listed afterwards - also when it is the oldest one and the directory
\* already holds as many backups as the retention limit allows.
C32_RestoreKeepsSource ==
  [][(Operated /\ result'[M].op = "restore_backup"
        /\ hist'.restore.name \in BackupNames)
     => (/\ hist'.restore.ok
         /\ hist'.restore.name \in BackupNames'
         /\ result'[M].outcome \in {"ok", "JSONDecodeError"})]_vars

\* position of process p in the order of commits
CommitIndex(p) == CHOOSE i \in 1..Len(hist.commits) : hist.commits[i] = p

\* C33: audit order is the commit order: the records of two commands stand in
\* the ledger in the order in which their saves replaced the document.
C33_AuditOrderIsCommitOrder ==
  \A i \in 1..Len(hist.logged) : \A j \in 1..Len(hist.logged) :
    i < j => CommitIndex(hist.logged[i]) < CommitIndex(hist.logged[j])

\* the backups that belong to project P: those its manager wrote
OwnBackups(bs, P) == {f \in bs : f.stem = P}

\* C34: backups are scoped per project: a save in one project deletes no
\* backup of another project, and listing the backups of a project shows
\* only backups of that project.
C34_BackupsPerProject ==
  /\ [][\A P \in ProjectNames :
          (Operated /\ OwnBackups(backups', P) # OwnBackups(backups, P))
            => \A Q \in ProjectNames \ {P} :
                 OwnBackups(backups, Q) \subseteq backups']_vars
  /\ [](answer.asked /\ answer.query = "list_backups"
          => answer.listed \subseteq OwnBackups(backups, answer.project))

\* C35: the audit trail is scoped per project: a team-history request made
\* through the manager of a project returns only records that operations on
\* that project wrote.
C35_AuditPerProject ==
  (answer.asked /\ answer.query = "get_team_history")
    => \A i \in 1..Len(answer.results) :
         answer.results[i].project = answer.project

\* C36: the project template is fixed: initialize_project always produces
\* the standard teams, all not_started, with no timestamps and no role
\* assigned, whatever was done earlier in the same process; and no operation
\* on an initialized project changes the shared template.
C36_TemplateFixed ==
  /\ [][(Operated /\ result'[M] = Outcome("initialize_project", "ok"))
          => teams'[M] = PristineTeams]_vars
  /\ [](template = PristineTeams)

\* the roles the traced role operation names
NamedRoles(c) ==
  {c.role} \cup (IF c.op = "reassign_role" THEN {c.to_role} ELSE {})

\* C37: role operations touch only the assignee: a successful assign_role,
\* unassign_role or reassign_role changes only the assignment of the named
\* role(s) in the named team; status, timestamps, other roles and other
\* teams stay as they were, in memory and in the saved document; and
\* validate_team_size changes nothing.
C37_RoleOpsTouchOnlyAssignee ==
  [][/\ (/\ Operated
         /\ call'.op \in {"assign_role", "unassign_role", "reassign_role"}
         /\ result'[M].outcome = "ok")
        => /\ DOMAIN teams'[M] = DOMAIN teams[M]
           /\ \A t \in DOMAIN teams[M] \ {call'.team} :
                teams'[M][t] = teams[M][t]
           /\ [teams'[M][call'.team] EXCEPT !.roles = <<>>]
                = [teams[M][call'.team] EXCEPT !.roles = <<>>]
           /\ DOMAIN teams'[M][call'.team].roles
                = DOMAIN teams[M][call'.team].roles
           /\ \A r \in DOMAIN teams[M][call'.team].roles \ NamedRoles(call') :
                teams'[M][call'.team].roles[r] = teams[M][call'.team].roles[r]
           /\ load_teams(doc'.teams) = teams'[M]
     /\ (Operated /\ call'.op = "validate_team_size")
        => UNCHANGED <<teams, doc, backups, audit, template, shared>>]_vars

C37_Witness ==
  /\ call.op = "assign_role"
  /\ result[M] = Outcome("assign_role", "ok")
  /\ teams[M][call.team].status = "active"
  /\ teams[M][call.team].roles[call.role] = call.person
  /\ \E r \in DOMAIN teams[M][call.team].roles \ {call.role} :
       teams[M][call.team].roles[r] # None
  /\ DOMAIN teams[M] \ {call.team} # {}

\* the complete records of the ledger, in the order they were appended
Appended(ledger) == SelectSeq(ledger, parsable)

\* C38: get_recent_audit(count) returns the last count records appended to
\* the ledger (all of them when there are fewer), not the first count.
C38_RecentAreLatest ==
  (answer.asked /\ answer.query = "get_recent_audit")
    => LET good == Appended(audit)
           n == Len(good)
       IN {answer.results[i] : i \in 1..Len(answer.results)}
            = {good[j] : j \in {k \in 1..n : k > n - answer.limit}}

\* the users whose bucket a clean-up has removed and no later check refilled
Evicted == DOMAIN hist.reference.buckets \ DOMAIN limiter.buckets

\* C39: bucket eviction is unobservable: every check gets the same
\* allowed/denied answer from the limiter, which evicts buckets older than
\* twice the window during later checks, as from a limiter that never
\* evicts; and a bucket whose window has not yet elapsed is never evicted.
C39_EvictionUnobservable ==
  /\ [](hist.checked.allowed = hist.checked.reference)
  /\ [][Checked
          => \A u \in DOMAIN limiter.buckets \ DOMAIN limiter'.buckets :
               now - limiter.buckets[u].last_reset >= limiter.window_seconds]_vars

C39_Witness ==
  /\ Evicted # {}
  /\ hist.checked.user # None
  /\ ~hist.checked.allowed
  /\ \E v \in DOMAIN limiter.buckets :
       /\ limiter.buckets[v].last_reset < limiter.last_cleanup
       /\ limiter.last_cleanup - limiter.buckets[v].last_reset
            < limiter.window_seconds

====
